---- MODULE Spec2Model ----
(***************************************************************************)
(* AnyDown: a Telegram bot that downloads a video with yt-dlp and sends it *)
(* back to the chat.  The model follows src/AnyDown.py statement by        *)
(* statement: is_supported_url, download_and_send_video and the dispatch   *)
(* of updates set up in main.                                              *)
(***************************************************************************)
EXTENDS Integers, Sequences, FiniteSets, TLC

(* ---------------------------------------------------------------------- *)
(* Bounds of the model                                                     *)
(* ---------------------------------------------------------------------- *)
\* number of updates (requests) the dispatcher hands to the handler
NumRequests == 2
\* longest free-form text the classifier is run on
MaxUrlLen == 5

Requests == 1..NumRequests
NoTask == 0

(* ---------------------------------------------------------------------- *)
(* Text: a str is a sequence of one-character strings                      *)
(* ---------------------------------------------------------------------- *)
Str(s) == [kind |-> "str", chars |-> s]
\* a value that is not a str (None, an int, ...): it has no .lower()
NotAStr == [kind |-> "none", chars |-> <<>>]

UpperOf ==
    [c \in {"a", "b", "c", "e", "f", "g", "h", "i", "k", "m", "n", "o", "r",
            "s", "t", "u", "w", "x", "y"} |->
        CASE c = "a" -> "A" [] c = "b" -> "B" [] c = "c" -> "C" [] c = "e" -> "E"
          [] c = "f" -> "F" [] c = "g" -> "G" [] c = "h" -> "H" [] c = "i" -> "I"
          [] c = "k" -> "K" [] c = "m" -> "M" [] c = "n" -> "N" [] c = "o" -> "O"
          [] c = "r" -> "R" [] c = "s" -> "S" [] c = "t" -> "T" [] c = "u" -> "U"
          [] c = "w" -> "W" [] c = "x" -> "X" [] c = "y" -> "Y"]

\* str.lower() on one character: an upper-case letter maps to its lower-case
\* letter, every other character is unchanged
LowerChar(c) ==
    IF \E l \in DOMAIN UpperOf : UpperOf[l] = c
    THEN CHOOSE l \in DOMAIN UpperOf : UpperOf[l] = c
    ELSE c

\* url used as it is, without .lower()
NoLower(s) == s

\* url.lower()
Lower(s) == [i \in 1..Len(s) |-> LowerChar(s[i])]

\* Python's `needle in hay` for two str values: a scan over the start offsets
RECURSIVE ScanFrom(_, _, _)
ScanFrom(needle, hay, i) ==
    IF i + Len(needle) - 1 > Len(hay) THEN FALSE
    ELSE IF SubSeq(hay, i, i + Len(needle) - 1) = needle THEN TRUE
    ELSE ScanFrom(needle, hay, i + 1)

In(needle, hay) == ScanFrom(needle, hay, 1)

SUPPORTED_DOMAINS ==
    << <<"y", "o", "u", "t", "u", "b", "e", ".", "c", "o", "m">>,
       <<"y", "o", "u", "t", "u", ".", "b", "e">>,
       <<"f", "a", "c", "e", "b", "o", "o", "k", ".", "c", "o", "m">>,
       <<"f", "b", ".", "w", "a", "t", "c", "h">>,
       <<"i", "n", "s", "t", "a", "g", "r", "a", "m", ".", "c", "o", "m">>,
       <<"t", "w", "i", "t", "t", "e", "r", ".", "c", "o", "m">>,
       <<"x", ".", "c", "o", "m">> >>

\* L65: any(domain in url.lower() for domain in SUPPORTED_DOMAINS); a value
\* that is not a str has no .lower() and the expression raises
any_domain_in(url) ==
    IF url.kind # "str" THEN "AttributeError"
    ELSE IF \E k \in 1..Len(SUPPORTED_DOMAINS) : In(SUPPORTED_DOMAINS[k], Lower(url.chars))
         THEN "True"
         ELSE "False"

\* L62-67: what a call of is_supported_url ends with: the value of the
\* expression, or False from the bare except when the expression raised
is_supported_url_call(url) ==
    IF any_domain_in(url) \in {"True", "False"} THEN any_domain_in(url) ELSE "False"

\* is_supported_url(url) as the condition of L74
is_supported_url(url) == is_supported_url_call(url) = "True"

(* ---------------------------------------------------------------------- *)
(* Texts, collaborators' values                                            *)
(* ---------------------------------------------------------------------- *)
\* (an emoji is written as its code point)
RejectionText == "U+274C Unsupported platform. Send links from YouTube/Facebook/Instagram/Twitter only."
PrivateText == "U+26A0 Couldn't download this video. It might be private or age-restricted."
GenericText == "U+274C An unexpected error occurred. Please try again later."
DocumentCaption == "U+1F4C1 File too large for streaming, sent as document"

\* the texts of the updates the dispatcher delivers
SupportedSample == Str(<<"h", "t", "t", "p", "s", ":", "/", "/", "Y", "o", "u", "T", "u", ".", "b", "e", "/", "a">>)
UnsupportedSample == Str(<<"n", "o", "t", " ", "a", " ", "u", "r", "l">>)
UpdateTexts == {SupportedSample, UnsupportedSample}

\* the info dict extract_info returns: 'title' and 'duration' may be missing
InfoDict(keys, t, d) ==
    [keys |-> keys,
     title |-> IF "title" \in keys THEN t ELSE "",
     duration |-> IF "duration" \in keys THEN d ELSE 0]
EmptyDict == InfoDict({}, "", 0)
Titles == {"Sample"}
Durations == {125, 119}
InfoDicts ==
    {InfoDict(ks, t, d) : ks \in SUBSET {"title", "duration"}, t \in Titles, d \in Durations}

\* info.get(key, default)
dict_get(d, key, default) ==
    IF key \in d.keys THEN (IF key = "title" THEN d.title ELSE d.duration) ELSE default

\* 2000 * 1024 * 1024
SizeLimit == 2000 * 1024 * 1024
MiB == 1024 * 1024
\* sizes of downloaded files, in bytes (2047 MiB is the largest whole number of
\* MiB a TLC integer holds)
Sizes == {0, 50 * MiB, SizeLimit - 1, SizeLimit, SizeLimit + 1, 2047 * MiB}

File(ext, size) == [ext |-> ext, size |-> size]
NoFile == File("", 0)
NoPath == [dir |-> 0, file |-> NoFile]

\* the minutes rounded to the nearest whole number in place of //
ProgressTextRounded(i) ==
    <<"U+23F3 Downloading: ", dict_get(i, "title", "video"),
      "U+23F1 Duration: ", (dict_get(i, "duration", 0) + 30) \div 60, " minutes">>

\* f"U+23F3 Downloading: {info.get('title', 'video')}\n"
\* f"U+23F1 Duration: {info.get('duration', 0)//60} minutes"
ProgressText(i) ==
    <<"U+23F3 Downloading: ", dict_get(i, "title", "video"),
      "U+23F1 Duration: ", dict_get(i, "duration", 0) \div 60, " minutes">>
\* f"U+2705 {info.get('title', 'Downloaded Video')}"
VideoCaption(i) == <<"U+2705 ", dict_get(i, "title", "Downloaded Video")>>

\* the comparison with <= in place of <
FitsVideoInclusive(size) == size <= SizeLimit

\* os.path.getsize(downloaded_path) < 2000 * 1024 * 1024
FitsVideo(size) == size < SizeLimit

(* ---------------------------------------------------------------------- *)
(* State                                                                   *)
(* ---------------------------------------------------------------------- *)
VARIABLES
    pc,              \* per request: the statement the handler is at
    awaiting,        \* per request: suspended in the await at pc
    running,         \* the task that occupies the event-loop thread, or NoTask
    url,             \* per request: message.text
    tmp_dir,         \* per request: the directory bound by the with statement, 0 before
    fs,              \* the temporary directories that exist: directory -> its files
    next_dir,        \* the next name mkdtemp hands out
    info,            \* per request: the dict returned by extract_info
    processing_msg,  \* per request: handle of the progress message, 0 for None
    downloaded_path, \* per request: the file chosen for upload
    exc,             \* per request: the exception unwinding out of the with block
    escaped,         \* per request: an exception left the handler
    trace,           \* per request: the calls made to the transport and the backend
    updates,         \* the number of updates the dispatcher has still to deliver
    env,             \* what the collaborators can answer in this run
    cls_in,          \* classifier run: the argument
    cls_out          \* classifier run: "pending", or the value returned

vars == <<pc, awaiting, running, url, tmp_dir, fs, next_dir, info, processing_msg,
          downloaded_path, exc, escaped, trace, updates, env, cls_in, cls_out>>
cls_vars == <<cls_in, cls_out>>
req_vars == <<pc, awaiting, running, url, tmp_dir, fs, next_dir, info, processing_msg,
              downloaded_path, exc, escaped, trace, updates, env>>

Call(op, arg, ok) == [op |-> op, arg |-> arg, ok |-> ok]

\* the statements that are awaits on the transport
AwaitLabels == {"L75", "L88", "L92", "L108", "L111", "L120", "L126", "L131", "L135", "L139"}

InitRequests ==
    /\ pc = [r \in Requests |-> "idle"]
    /\ awaiting = [r \in Requests |-> FALSE]
    /\ running = NoTask
    /\ url = [r \in Requests |-> NotAStr]
    /\ tmp_dir = [r \in Requests |-> 0]
    /\ fs = <<>>
    /\ next_dir = 1
    /\ info = [r \in Requests |-> EmptyDict]
    /\ processing_msg = [r \in Requests |-> 0]
    /\ downloaded_path = [r \in Requests |-> NoPath]
    /\ exc = [r \in Requests |-> "none"]
    /\ escaped = [r \in Requests |-> FALSE]
    /\ trace = [r \in Requests |-> <<>>]

\* the collaborators of one run: the dicts extract_info can return, the sizes
\* of the files download can write, the outcomes of a call to the transport
Env(infos, sizes, sends) == [infos |-> infos, sizes |-> sizes, sends |-> sends]

\* Either one update is handled against collaborators that can answer and
\* fail in every way, or NumRequests updates are in flight together against
\* a transport that does not fail.
Init ==
    /\ InitRequests
    /\ \/ /\ updates = 1
          /\ env = Env(InfoDicts, Sizes, BOOLEAN)
       \/ /\ updates = NumRequests
          /\ env = Env({InfoDict({"title", "duration"}, "Sample", 125)},
                       {SizeLimit - 1, SizeLimit}, {TRUE})
    /\ cls_in = NotAStr
    /\ cls_out = "pending"

(* ---------------------------------------------------------------------- *)
(* Scheduling: one task per update on one event-loop thread                *)
(* ---------------------------------------------------------------------- *)
\* the handler of request r runs on the event-loop thread
Runs(r) == running = r /\ ~awaiting[r]
\* the awaited call of request r has completed and the loop resumes the task
Resumes(r, label) == pc[r] = label /\ awaiting[r] /\ running = NoTask

Log(r, op, arg, ok) == trace' = [trace EXCEPT ![r] = Append(@, Call(op, arg, ok))]

\* an exception raised by a statement inside the with block
Raise(r, kind) ==
    /\ exc' = [exc EXCEPT ![r] = kind]
    /\ pc' = [pc EXCEPT ![r] = "with_exit"]

\* MessageHandler(filters.TEXT & ~filters.COMMAND, download_and_send_video):
\* the application starts the handler for an update; L71-72
Receive(r) ==
    /\ pc[r] = "idle"
    /\ \A q \in Requests : q < r => pc[q] # "idle"
    /\ updates > 0
    /\ updates' = updates - 1
    /\ running = NoTask
    /\ \E u \in UpdateTexts : url' = [url EXCEPT ![r] = u]
    /\ pc' = [pc EXCEPT ![r] = "L74"]
    /\ running' = r
    /\ UNCHANGED <<awaiting, tmp_dir, fs, next_dir, info, processing_msg,
                   downloaded_path, exc, escaped, trace, env, cls_vars>>

\* `await f(...)`: the call is issued and the task is suspended
AwaitCall(r) ==
    /\ Runs(r)
    /\ pc[r] \in AwaitLabels
    /\ awaiting' = [awaiting EXCEPT ![r] = TRUE]
    /\ running' = NoTask
    /\ UNCHANGED <<pc, url, tmp_dir, fs, next_dir, info, processing_msg,
                   downloaded_path, exc, escaped, trace, updates, env, cls_vars>>

\* L74: if not is_supported_url(url)
Classify(r) ==
    /\ Runs(r)
    /\ pc[r] = "L74"
    /\ pc' = [pc EXCEPT ![r] = IF is_supported_url(url[r]) THEN "L78" ELSE "L75"]
    /\ UNCHANGED <<awaiting, running, url, tmp_dir, fs, next_dir, info, processing_msg,
                   downloaded_path, exc, escaped, trace, updates, env, cls_vars>>

\* L75 without the return of L76: the handler goes on to L78
RejectReturnFallsThrough(r) ==
    /\ Resumes(r, "L75")
    /\ \E ok \in env.sends :
        /\ Log(r, "reply_text", <<RejectionText>>, ok)
        /\ escaped' = [escaped EXCEPT ![r] = ~ok]
        /\ pc' = [pc EXCEPT ![r] = IF ok THEN "L78" ELSE "done"]
        /\ running' = IF ok THEN r ELSE NoTask
    /\ awaiting' = [awaiting EXCEPT ![r] = FALSE]
    /\ UNCHANGED <<url, tmp_dir, fs, next_dir, info, processing_msg,
                   downloaded_path, exc, updates, env, cls_vars>>

\* L75-76: await message.reply_text(rejection); return
RejectReturn(r) ==
    /\ Resumes(r, "L75")
    /\ \E ok \in env.sends :
        /\ Log(r, "reply_text", <<RejectionText>>, ok)
        /\ escaped' = [escaped EXCEPT ![r] = ~ok]
    /\ pc' = [pc EXCEPT ![r] = "done"]
    /\ awaiting' = [awaiting EXCEPT ![r] = FALSE]
    /\ UNCHANGED <<running, url, tmp_dir, fs, next_dir, info, processing_msg,
                   downloaded_path, exc, updates, env, cls_vars>>

\* one fixed download directory in place of a directory of the request's own
EnterWithSharedDir(r) ==
    /\ Runs(r)
    /\ pc[r] = "L78"
    /\ processing_msg' = [processing_msg EXCEPT ![r] = 0]
    /\ tmp_dir' = [tmp_dir EXCEPT ![r] = 1]
    /\ fs' = [d \in DOMAIN fs \cup {1} |-> IF d \in DOMAIN fs THEN fs[d] ELSE {}]
    /\ pc' = [pc EXCEPT ![r] = "L88"]
    /\ UNCHANGED <<awaiting, running, url, next_dir, info, downloaded_path, exc, escaped,
                   trace, updates, env, cls_vars>>

\* L78-85: processing_msg = None; with tempfile.TemporaryDirectory() as tmp_dir;
\* the downloader is built on tmp_dir.  mkdtemp may fail (OSError).
EnterWith(r) ==
    /\ Runs(r)
    /\ pc[r] = "L78"
    /\ processing_msg' = [processing_msg EXCEPT ![r] = 0]
    /\ \/ /\ tmp_dir' = [tmp_dir EXCEPT ![r] = next_dir]
          /\ fs' = [d \in DOMAIN fs \cup {next_dir} |-> IF d = next_dir THEN {} ELSE fs[d]]
          /\ next_dir' = next_dir + 1
          /\ pc' = [pc EXCEPT ![r] = "L88"]
          /\ UNCHANGED exc
       \/ /\ exc' = [exc EXCEPT ![r] = "Exception"]
          /\ pc' = [pc EXCEPT ![r] = "L135"]
          /\ UNCHANGED <<tmp_dir, fs, next_dir>>
    /\ UNCHANGED <<awaiting, running, url, info, downloaded_path, escaped, trace, updates, env, cls_vars>>

\* L88: await message.reply_chat_action(action="typing")
TypingReturn(r) ==
    /\ Resumes(r, "L88")
    /\ \E ok \in env.sends :
        /\ Log(r, "reply_chat_action", <<"typing">>, ok)
        /\ IF ok THEN pc' = [pc EXCEPT ![r] = "L89"] /\ UNCHANGED exc
                 ELSE Raise(r, "Exception")
    /\ awaiting' = [awaiting EXCEPT ![r] = FALSE]
    /\ running' = r
    /\ UNCHANGED <<url, tmp_dir, fs, next_dir, info, processing_msg,
                   downloaded_path, escaped, updates, env, cls_vars>>

\* L89: info = ydl.extract_info(url, download=False) is called: a plain call,
\* the task keeps the event-loop thread until it returns
ProbeBegin(r) ==
    /\ Runs(r)
    /\ pc[r] = "L89"
    /\ pc' = [pc EXCEPT ![r] = "L89_call"]
    /\ UNCHANGED <<awaiting, running, url, tmp_dir, fs, next_dir, info, processing_msg,
                   downloaded_path, exc, escaped, trace, updates, env, cls_vars>>

\* L92-95 left out: after the probe the handler goes straight to L98
ProbeEndSkipsNotify(r) ==
    /\ Runs(r)
    /\ pc[r] = "L89_call"
    /\ \/ \E i \in env.infos :
            /\ info' = [info EXCEPT ![r] = i]
            /\ Log(r, "extract_info", <<"returned">>, TRUE)
            /\ pc' = [pc EXCEPT ![r] = "L98"]
            /\ UNCHANGED exc
       \/ \E kind \in {"DownloadError", "Exception"} :
            /\ Log(r, "extract_info", <<kind>>, FALSE)
            /\ Raise(r, kind)
            /\ UNCHANGED info
    /\ UNCHANGED <<awaiting, running, url, tmp_dir, fs, next_dir, processing_msg,
                   downloaded_path, escaped, updates, env, cls_vars>>

\* L89: extract_info returns the info dict, raises DownloadError, or raises
\* something else
ProbeEnd(r) ==
    /\ Runs(r)
    /\ pc[r] = "L89_call"
    /\ \/ \E i \in env.infos :
            /\ info' = [info EXCEPT ![r] = i]
            /\ Log(r, "extract_info", <<"returned">>, TRUE)
            /\ pc' = [pc EXCEPT ![r] = "L92"]
            /\ UNCHANGED exc
       \/ \E kind \in {"DownloadError", "Exception"} :
            /\ Log(r, "extract_info", <<kind>>, FALSE)
            /\ Raise(r, kind)
            /\ UNCHANGED info
    /\ UNCHANGED <<awaiting, running, url, tmp_dir, fs, next_dir, processing_msg,
                   downloaded_path, escaped, updates, env, cls_vars>>

\* L92-95: processing_msg = await message.reply_text(progress text)
ProgressReturn(r) ==
    /\ Resumes(r, "L92")
    /\ \E ok \in env.sends :
        /\ Log(r, "reply_text", ProgressText(info[r]), ok)
        /\ IF ok
           THEN /\ processing_msg' = [processing_msg EXCEPT ![r] = Len(trace[r]) + 1]
                /\ pc' = [pc EXCEPT ![r] = "L98"]
                /\ UNCHANGED exc
           ELSE /\ Raise(r, "Exception")
                /\ UNCHANGED processing_msg
    /\ awaiting' = [awaiting EXCEPT ![r] = FALSE]
    /\ running' = r
    /\ UNCHANGED <<url, tmp_dir, fs, next_dir, info, downloaded_path, escaped, updates, env, cls_vars>>

\* L98: ydl.download([url]) is called: a plain call, as extract_info is
FetchBegin(r) ==
    /\ Runs(r)
    /\ pc[r] = "L98"
    /\ pc' = [pc EXCEPT ![r] = "L98_call"]
    /\ UNCHANGED <<awaiting, running, url, tmp_dir, fs, next_dir, info, processing_msg,
                   downloaded_path, exc, escaped, trace, updates, env, cls_vars>>

\* the directory d with file f written into it
WriteFile(d, f) == [fs EXCEPT ![d] = @ \cup {f}]

\* L98: download returns after writing an .mp4 or a file of another container
\* into tmp_dir, raises DownloadError leaving a partial file, or raises
\* something else
FetchEnd(r) ==
    /\ Runs(r)
    /\ pc[r] = "L98_call"
    /\ \/ \E size \in env.sizes :
            /\ fs' = WriteFile(tmp_dir[r], File("mp4", size))
            /\ Log(r, "download", <<"returned">>, TRUE)
            /\ pc' = [pc EXCEPT ![r] = "L101"]
            /\ UNCHANGED exc
       \/ /\ fs' = WriteFile(tmp_dir[r], File("webm", 50 * MiB))
          /\ Log(r, "download", <<"returned">>, TRUE)
          /\ pc' = [pc EXCEPT ![r] = "L101"]
          /\ UNCHANGED exc
       \/ /\ fs' = WriteFile(tmp_dir[r], File("part", 0))
          /\ Log(r, "download", <<"DownloadError">>, FALSE)
          /\ Raise(r, "DownloadError")
       \/ /\ Log(r, "download", <<"Exception">>, FALSE)
          /\ Raise(r, "Exception")
          /\ UNCHANGED fs
    /\ UNCHANGED <<awaiting, running, url, tmp_dir, next_dir, info, processing_msg,
                   downloaded_path, escaped, updates, env, cls_vars>>

\* L101 without the .endswith('.mp4') filter: any file listed is taken
ListFilesAnyFile(r) ==
    /\ Runs(r)
    /\ pc[r] = "L101"
    /\ LET downloaded_files == fs[tmp_dir[r]]
       IN  IF downloaded_files = {}
           THEN /\ Raise(r, "Exception")
                /\ UNCHANGED downloaded_path
           ELSE /\ \E f \in downloaded_files :
                    downloaded_path' =
                        [downloaded_path EXCEPT ![r] = [dir |-> tmp_dir[r], file |-> f]]
                /\ pc' = [pc EXCEPT ![r] = "L108"]
                /\ UNCHANGED exc
    /\ UNCHANGED <<awaiting, running, url, tmp_dir, fs, next_dir, info, processing_msg,
                   escaped, trace, updates, env, cls_vars>>

\* L103 raising DownloadError in place of Exception
ListFilesDownloadError(r) ==
    /\ Runs(r)
    /\ pc[r] = "L101"
    /\ LET downloaded_files == {f \in fs[tmp_dir[r]] : f.ext = "mp4"}
       IN  IF downloaded_files = {}
           THEN /\ Raise(r, "DownloadError")
                /\ UNCHANGED downloaded_path
           ELSE /\ \E f \in downloaded_files :
                    downloaded_path' =
                        [downloaded_path EXCEPT ![r] = [dir |-> tmp_dir[r], file |-> f]]
                /\ pc' = [pc EXCEPT ![r] = "L108"]
                /\ UNCHANGED exc
    /\ UNCHANGED <<awaiting, running, url, tmp_dir, fs, next_dir, info, processing_msg,
                   escaped, trace, updates, env, cls_vars>>

\* L101-105: the .mp4 files of tmp_dir; none raises Exception, else the first
\* one listed is the file to send
ListFiles(r) ==
    /\ Runs(r)
    /\ pc[r] = "L101"
    /\ LET downloaded_files == {f \in fs[tmp_dir[r]] : f.ext = "mp4"}
       IN  IF downloaded_files = {}
           THEN /\ Raise(r, "Exception")
                /\ UNCHANGED downloaded_path
           ELSE /\ \E f \in downloaded_files :
                    downloaded_path' =
                        [downloaded_path EXCEPT ![r] = [dir |-> tmp_dir[r], file |-> f]]
                /\ pc' = [pc EXCEPT ![r] = "L108"]
                /\ UNCHANGED exc
    /\ UNCHANGED <<awaiting, running, url, tmp_dir, fs, next_dir, info, processing_msg,
                   escaped, trace, updates, env, cls_vars>>

\* L108: await message.reply_chat_action(action="upload_video")
UploadActionReturn(r) ==
    /\ Resumes(r, "L108")
    /\ \E ok \in env.sends :
        /\ Log(r, "reply_chat_action", <<"upload_video">>, ok)
        /\ IF ok THEN pc' = [pc EXCEPT ![r] = "L109"] /\ UNCHANGED exc
                 ELSE Raise(r, "Exception")
    /\ awaiting' = [awaiting EXCEPT ![r] = FALSE]
    /\ running' = r
    /\ UNCHANGED <<url, tmp_dir, fs, next_dir, info, processing_msg,
                   downloaded_path, escaped, updates, env, cls_vars>>

\* L109-110, L118-119: the size check picks the branch and opens the file;
\* getsize or open may raise OSError
SizeCheck(r) ==
    /\ Runs(r)
    /\ pc[r] = "L109"
    /\ \/ /\ pc' = [pc EXCEPT ![r] =
                       IF FitsVideo(downloaded_path[r].file.size) THEN "L111" ELSE "L120"]
          /\ UNCHANGED exc
       \/ Raise(r, "Exception")
    /\ UNCHANGED <<awaiting, running, url, tmp_dir, fs, next_dir, info, processing_msg,
                   downloaded_path, escaped, trace, updates, env, cls_vars>>

\* a failed reply_video retried as a document
VideoReturnThenDocument(r) ==
    /\ Resumes(r, "L111")
    /\ \E ok \in env.sends :
        /\ Log(r, "reply_video", <<VideoCaption(info[r]), TRUE, downloaded_path[r]>>, ok)
        /\ pc' = [pc EXCEPT ![r] = IF ok THEN "L125" ELSE "L120"]
    /\ awaiting' = [awaiting EXCEPT ![r] = FALSE]
    /\ running' = r
    /\ UNCHANGED <<url, tmp_dir, fs, next_dir, info, processing_msg,
                   downloaded_path, exc, escaped, updates, env, cls_vars>>

\* L111-117: await message.reply_video(video, caption, supports_streaming=True, ...)
VideoReturn(r) ==
    /\ Resumes(r, "L111")
    /\ \E ok \in env.sends :
        /\ Log(r, "reply_video", <<VideoCaption(info[r]), TRUE, downloaded_path[r]>>, ok)
        /\ IF ok THEN pc' = [pc EXCEPT ![r] = "L125"] /\ UNCHANGED exc
                 ELSE Raise(r, "Exception")
    /\ awaiting' = [awaiting EXCEPT ![r] = FALSE]
    /\ running' = r
    /\ UNCHANGED <<url, tmp_dir, fs, next_dir, info, processing_msg,
                   downloaded_path, escaped, updates, env, cls_vars>>

\* L120-123: await message.reply_document(document, caption)
DocumentReturn(r) ==
    /\ Resumes(r, "L120")
    /\ \E ok \in env.sends :
        /\ Log(r, "reply_document", <<<<DocumentCaption>>, FALSE, downloaded_path[r]>>, ok)
        /\ IF ok THEN pc' = [pc EXCEPT ![r] = "L125"] /\ UNCHANGED exc
                 ELSE Raise(r, "Exception")
    /\ awaiting' = [awaiting EXCEPT ![r] = FALSE]
    /\ running' = r
    /\ UNCHANGED <<url, tmp_dir, fs, next_dir, info, processing_msg,
                   downloaded_path, escaped, updates, env, cls_vars>>

\* L125: if processing_msg
CheckProcessing(r) ==
    /\ Runs(r)
    /\ pc[r] = "L125"
    /\ pc' = [pc EXCEPT ![r] = IF processing_msg[r] # 0 THEN "L126" ELSE "with_exit"]
    /\ UNCHANGED <<awaiting, running, url, tmp_dir, fs, next_dir, info, processing_msg,
                   downloaded_path, exc, escaped, trace, updates, env, cls_vars>>

\* L126: await processing_msg.delete(), inside the try and the with block
DeleteReturn(r) ==
    /\ Resumes(r, "L126")
    /\ \E ok \in env.sends :
        /\ Log(r, "delete", <<processing_msg[r]>>, ok)
        /\ IF ok THEN pc' = [pc EXCEPT ![r] = "with_exit"] /\ UNCHANGED exc
                 ELSE Raise(r, "Exception")
    /\ awaiting' = [awaiting EXCEPT ![r] = FALSE]
    /\ running' = r
    /\ UNCHANGED <<url, tmp_dir, fs, next_dir, info, processing_msg,
                   downloaded_path, escaped, updates, env, cls_vars>>

\* TemporaryDirectory.__exit__: the directory and its contents are removed
rmtree(d) == [x \in DOMAIN fs \ {d} |-> fs[x]]

\* `except DownloadError` nested inside the with block: its handler runs
\* while the directory still exists, and nothing removes it afterwards
ExitWithKeepsOnDownloadError(r) ==
    /\ Runs(r)
    /\ pc[r] = "with_exit"
    /\ fs' = IF exc[r] = "DownloadError" THEN fs ELSE rmtree(tmp_dir[r])
    /\ pc' = [pc EXCEPT ![r] =
                 CASE exc[r] = "none" -> "done"
                   [] exc[r] = "DownloadError" -> "L131"
                   [] exc[r] = "Exception" -> "L135"]
    /\ running' = IF exc[r] = "none" THEN NoTask ELSE r
    /\ UNCHANGED <<awaiting, url, tmp_dir, next_dir, info, processing_msg,
                   downloaded_path, exc, escaped, trace, updates, env, cls_vars>>

\* the directory removed only when the block is left without an exception
ExitWithOnSuccessOnly(r) ==
    /\ Runs(r)
    /\ pc[r] = "with_exit"
    /\ fs' = IF exc[r] = "none" THEN rmtree(tmp_dir[r]) ELSE fs
    /\ pc' = [pc EXCEPT ![r] =
                 CASE exc[r] = "none" -> "done"
                   [] exc[r] = "DownloadError" -> "L131"
                   [] exc[r] = "Exception" -> "L135"]
    /\ running' = IF exc[r] = "none" THEN NoTask ELSE r
    /\ UNCHANGED <<awaiting, url, tmp_dir, next_dir, info, processing_msg,
                   downloaded_path, exc, escaped, trace, updates, env, cls_vars>>

\* `except Exception` tried before `except DownloadError`: every exception
\* reaches L135
ExitWithGenericFirst(r) ==
    /\ Runs(r)
    /\ pc[r] = "with_exit"
    /\ fs' = rmtree(tmp_dir[r])
    /\ pc' = [pc EXCEPT ![r] = IF exc[r] = "none" THEN "done" ELSE "L135"]
    /\ running' = IF exc[r] = "none" THEN NoTask ELSE r
    /\ UNCHANGED <<awaiting, url, tmp_dir, next_dir, info, processing_msg,
                   downloaded_path, exc, escaped, trace, updates, env, cls_vars>>

\* the with block of L80 is left, normally or by an exception: the directory
\* is removed, then the handler ends (no exception), or the except clause
\* matching the exception starts (L128-130, L133-134 log and reach the send)
ExitWith(r) ==
    /\ Runs(r)
    /\ pc[r] = "with_exit"
    /\ fs' = rmtree(tmp_dir[r])
    /\ pc' = [pc EXCEPT ![r] =
                 CASE exc[r] = "none" -> "done"
                   [] exc[r] = "DownloadError" -> "L131"
                   [] exc[r] = "Exception" -> "L135"]
    /\ running' = IF exc[r] = "none" THEN NoTask ELSE r
    /\ UNCHANGED <<awaiting, url, tmp_dir, next_dir, info, processing_msg,
                   downloaded_path, exc, escaped, trace, updates, env, cls_vars>>

\* L131: await message.reply_text(private or age-restricted); an exception
\* raised here leaves the handler
PrivateReturn(r) ==
    /\ Resumes(r, "L131")
    /\ \E ok \in env.sends :
        /\ Log(r, "reply_text", <<PrivateText>>, ok)
        /\ escaped' = [escaped EXCEPT ![r] = ~ok]
    /\ pc' = [pc EXCEPT ![r] = "done"]
    /\ awaiting' = [awaiting EXCEPT ![r] = FALSE]
    /\ UNCHANGED <<running, url, tmp_dir, fs, next_dir, info, processing_msg,
                   downloaded_path, exc, updates, env, cls_vars>>

\* L135-137: await message.reply_text(generic failure); if processing_msg.
\* An exception raised by the send leaves the handler.
GenericReturn(r) ==
    /\ Resumes(r, "L135")
    /\ \E ok \in env.sends :
        /\ Log(r, "reply_text", <<GenericText>>, ok)
        /\ escaped' = [escaped EXCEPT ![r] = ~ok]
        /\ pc' = [pc EXCEPT ![r] = IF ok /\ processing_msg[r] # 0 THEN "L139" ELSE "done"]
        /\ running' = IF ok /\ processing_msg[r] # 0 THEN r ELSE NoTask
    /\ awaiting' = [awaiting EXCEPT ![r] = FALSE]
    /\ UNCHANGED <<url, tmp_dir, fs, next_dir, info, processing_msg,
                   downloaded_path, exc, updates, env, cls_vars>>

\* L138-141: try: await processing_msg.delete() except: pass
FinalDeleteReturn(r) ==
    /\ Resumes(r, "L139")
    /\ \E ok \in env.sends : Log(r, "delete", <<processing_msg[r]>>, ok)
    /\ pc' = [pc EXCEPT ![r] = "done"]
    /\ awaiting' = [awaiting EXCEPT ![r] = FALSE]
    /\ UNCHANGED <<running, url, tmp_dir, fs, next_dir, info, processing_msg,
                   downloaded_path, exc, escaped, updates, env, cls_vars>>

\* one step of the handler of request r
Step(r) ==
    \/ AwaitCall(r)
    \/ Classify(r)
    \/ RejectReturn(r)
    \/ EnterWith(r)
    \/ TypingReturn(r)
    \/ ProbeBegin(r)
    \/ ProbeEnd(r)
    \/ ProgressReturn(r)
    \/ FetchBegin(r)
    \/ FetchEnd(r)
    \/ ListFiles(r)
    \/ UploadActionReturn(r)
    \/ SizeCheck(r)
    \/ VideoReturn(r)
    \/ DocumentReturn(r)
    \/ CheckProcessing(r)
    \/ DeleteReturn(r)
    \/ ExitWith(r)
    \/ PrivateReturn(r)
    \/ GenericReturn(r)
    \/ FinalDeleteReturn(r)

Next == \E r \in Requests : Receive(r) \/ Step(r)

Spec == Init /\ [][Next]_vars

(* ---------------------------------------------------------------------- *)
(* Reading the record of calls                                             *)
(* ---------------------------------------------------------------------- *)
Done(r) == pc[r] = "done"
Idx(r) == 1..Len(trace[r])
\* request r made the call `op` (whatever its outcome)
Tried(r, op) == \E i \in Idx(r) : trace[r][i].op = op
\* request r tried to send the text `text`
TriedText(r, text) ==
    \E i \in Idx(r) : trace[r][i].op = "reply_text" /\ trace[r][i].arg = <<text>>
\* the i-th call of request r is the send of the progress notification
IsProgressSend(r, i) ==
    /\ trace[r][i].op = "reply_text"
    /\ trace[r][i].arg \notin {<<RejectionText>>, <<PrivateText>>, <<GenericText>>}
\* the progress notification of request r reached the chat
ProgressSent(r) == \E i \in Idx(r) : IsProgressSend(r, i) /\ trace[r][i].ok
\* the probe / the fetch of request r raised the exception `kind`
BackendRaised(r, op, kind) ==
    \E i \in Idx(r) : trace[r][i] = Call(op, <<kind>>, FALSE)

(* ---------------------------------------------------------------------- *)
(* C1                                                                      *)
(* ---------------------------------------------------------------------- *)
\* C1: when the handler of a request whose URL was accepted has terminated,
\* whichever step failed, the temporary directory of the request (and so
\* every file in it) does not exist.
C1_TmpDirGoneAtEnd ==
    \A r \in Requests :
        (Done(r) /\ is_supported_url(url[r])) => tmp_dir[r] \notin DOMAIN fs

\* a request that wrote a partial file, then failed to send the failure
\* message, has terminated
C1_Witness ==
    \E r \in Requests :
        /\ Done(r) /\ escaped[r] /\ tmp_dir[r] # 0
        /\ BackendRaised(r, "download", "DownloadError")
        /\ tmp_dir[r] \notin DOMAIN fs

(* ---------------------------------------------------------------------- *)
(* C2                                                                      *)
(* ---------------------------------------------------------------------- *)
\* C2: on every path on which the progress notification was sent, its
\* deletion has been attempted when the handler terminates.
C2_DeleteAlwaysAttempted ==
    \A r \in Requests : (Done(r) /\ ProgressSent(r)) => Tried(r, "delete")

(* ---------------------------------------------------------------------- *)
(* C3                                                                      *)
(* ---------------------------------------------------------------------- *)
\* download returned but left no .mp4 file for request r to send
MissingOutput(r) ==
    /\ \E i \in Idx(r) : trace[r][i] = Call("download", <<"returned">>, TRUE)
    /\ downloaded_path[r] = NoPath
\* the fetch of request r failed: download raised, or returned without
\* leaving an .mp4 file
FetchFailed(r) ==
    \/ \E i \in Idx(r) : trace[r][i].op = "download" /\ ~trace[r][i].ok
    \/ MissingOutput(r)

\* C3 as stated: after any failure of the fetch step the handler answers
\* with the generic failure message and never with the "private or
\* age-restricted" message.
C3_FetchFailureIsGeneric ==
    \A r \in Requests :
        (Done(r) /\ FetchFailed(r)) =>
            TriedText(r, GenericText) /\ ~TriedText(r, PrivateText)

\* C3 amended: a fetch failure that is not a DownloadError (a missing output
\* file, any other exception) is answered with the generic failure message
\* and never the "private or age-restricted" one; a DownloadError raised by
\* download is answered with the "private or age-restricted" message, as a
\* probe failure is, and never with the generic one.
C3_FetchFailureByKind ==
    \A r \in Requests :
        (Done(r) /\ FetchFailed(r)) =>
            IF BackendRaised(r, "download", "DownloadError")
            THEN TriedText(r, PrivateText) /\ ~TriedText(r, GenericText)
            ELSE TriedText(r, GenericText) /\ ~TriedText(r, PrivateText)

\* one request ended after download raised DownloadError, another after
\* download left no .mp4 file
C3_Witness ==
    \E r, q \in Requests :
        /\ Done(r) /\ BackendRaised(r, "download", "DownloadError")
        /\ TriedText(r, PrivateText)
        /\ Done(q) /\ MissingOutput(q) /\ TriedText(q, GenericText)

(* ---------------------------------------------------------------------- *)
(* C4                                                                      *)
(* ---------------------------------------------------------------------- *)
\* C4: a failed send of the progress notification is not fatal: the call
\* that follows it is the fetch, not a failure message.
C4_ProgressFailureNotFatal ==
    \A r \in Requests :
        Done(r) =>
            \A i \in Idx(r) :
                (IsProgressSend(r, i) /\ ~trace[r][i].ok) =>
                    (i < Len(trace[r]) /\ trace[r][i + 1].op = "download")

(* ---------------------------------------------------------------------- *)
(* C5                                                                      *)
(* ---------------------------------------------------------------------- *)
\* C5: a failed delete of the progress notification is swallowed on every
\* path: no message is sent to the user after it and no exception leaves
\* the handler because of it.
C5_DeleteFailureSwallowed ==
    \A r \in Requests :
        \A i \in Idx(r) :
            (trace[r][i].op = "delete" /\ ~trace[r][i].ok) =>
                /\ \A j \in Idx(r) : j > i => trace[r][j].op # "reply_text"
                /\ ~escaped[r]

(* ---------------------------------------------------------------------- *)
(* C6                                                                      *)
(* ---------------------------------------------------------------------- *)
ProbeDenied(r) == BackendRaised(r, "extract_info", "DownloadError")

\* C6 as stated: when the probe raises DownloadError, the handler answers
\* with the "private or age-restricted" message, the fetch is never
\* attempted, no progress notification is sent, and no temporary directory
\* is ever created for the request.
C6_NoTmpDirOnProbeFailure ==
    \A r \in Requests :
        ProbeDenied(r) =>
            /\ Done(r) => TriedText(r, PrivateText)
            /\ ~Tried(r, "download")
            /\ \A i \in Idx(r) : ~IsProgressSend(r, i)
            /\ tmp_dir[r] = 0

\* C6 amended: when the probe raises DownloadError, the fetch is never
\* attempted and no progress notification is sent; the temporary directory,
\* created before the probe, is removed before the "private or
\* age-restricted" message is sent, and that message is the only text the
\* handler sends.
C6_ProbeFailure ==
    \A r \in Requests :
        ProbeDenied(r) =>
            /\ ~Tried(r, "download")
            /\ \A i \in Idx(r) : ~IsProgressSend(r, i)
            /\ processing_msg[r] = 0
            /\ tmp_dir[r] # 0
            /\ pc[r] \in {"with_exit", "L131", "done"}
            /\ pc[r] # "with_exit" => tmp_dir[r] \notin DOMAIN fs
            /\ Done(r) =>
                /\ trace[r][Len(trace[r])].op = "reply_text"
                /\ trace[r][Len(trace[r])].arg = <<PrivateText>>
                /\ \A i \in Idx(r) :
                       trace[r][i].op = "reply_text" => i = Len(trace[r])

\* a request whose probe raised DownloadError got the message
C6_Witness ==
    \E r \in Requests :
        /\ Done(r) /\ ProbeDenied(r)
        /\ trace[r][Len(trace[r])] = Call("reply_text", <<PrivateText>>, TRUE)

(* ---------------------------------------------------------------------- *)
(* C7                                                                      *)
(* ---------------------------------------------------------------------- *)
\* C7: for a text the classifier rejects, the only call the handler ever
\* makes is one send of the rejection message, after which it has
\* terminated: no temporary directory, no probe, no fetch, no progress
\* notification, no upload, no failure message.
C7_RejectedUrl ==
    \A r \in Requests :
        (pc[r] # "idle" /\ ~is_supported_url(url[r])) =>
            /\ tmp_dir[r] = 0
            /\ pc[r] \in {"L74", "L75", "done"}
            /\ \A i \in Idx(r) :
                   trace[r][i].op = "reply_text" /\ trace[r][i].arg = <<RejectionText>>
            /\ Len(trace[r]) = (IF Done(r) THEN 1 ELSE 0)

\* a rejected text was answered and the handler has ended
C7_Witness ==
    \E r \in Requests :
        /\ Done(r) /\ ~is_supported_url(url[r])
        /\ trace[r] = <<Call("reply_text", <<RejectionText>>, TRUE)>>

(* ---------------------------------------------------------------------- *)
(* C8                                                                      *)
(* ---------------------------------------------------------------------- *)
IsUpload(c) == c.op \in {"reply_video", "reply_document"}

\* C8: an upload is a streamable video with the caption made of the check
\* mark and the title exactly when the file is smaller than
\* 2000*1024*1024 bytes, and otherwise a document with the fixed caption; a
\* file of exactly that size goes out as a document.  The file sent is the
\* one in the directory, so the size is the size on disk.  (Without a title
\* in the info dict the caption carries 'Downloaded Video'.)
C8_DeliveryBySize ==
    \A r \in Requests :
        \A i \in Idx(r) :
            IsUpload(trace[r][i]) =>
                LET c == trace[r][i]
                    size == c.arg[3].file.size
                    title == IF "title" \in info[r].keys THEN info[r].title
                             ELSE "Downloaded Video"
                IN  /\ size < 2097152000 =>
                           /\ c.op = "reply_video"
                           /\ c.arg[1] = <<"U+2705 ", title>>
                           /\ c.arg[2] = TRUE
                    /\ size >= 2097152000 =>
                           /\ c.op = "reply_document"
                           /\ c.arg[1] = <<"U+1F4C1 File too large for streaming, sent as document">>
                    /\ size = 2000 * 1024 * 1024 => c.op = "reply_document"

\* a file of exactly the limit was sent as a document and one a byte smaller
\* as a video
C8_Witness ==
    \E r, q \in Requests :
        /\ \E i \in Idx(r) :
               /\ trace[r][i].op = "reply_document" /\ trace[r][i].ok
               /\ trace[r][i].arg[3].file.size = 2097152000
        /\ \E i \in Idx(q) :
               /\ trace[q][i].op = "reply_video" /\ trace[q][i].ok
               /\ trace[q][i].arg[3].file.size = 2097151999

(* ---------------------------------------------------------------------- *)
(* C9: the classifier on its own                                           *)
(* ---------------------------------------------------------------------- *)
ClsAlphabet == {"x", "X", ".", "c", "o", "m", "M"}
\* every text over ClsAlphabet of at most MaxUrlLen characters
ShortTexts == UNION {[1..n -> ClsAlphabet] : n \in 0..MaxUrlLen}

Upper(s) == [i \in 1..Len(s) |-> IF s[i] \in DOMAIN UpperOf THEN UpperOf[s[i]] ELSE s[i]]
Capitalized(s) == [i \in 1..Len(s) |-> IF i = 1 THEN Upper(s)[i] ELSE s[i]]
Alternating(s) == [i \in 1..Len(s) |-> IF i % 2 = 0 THEN Upper(s)[i] ELSE s[i]]
Without(s, k) == SubSeq(s, 1, k - 1) \o SubSeq(s, k + 1, Len(s))
Fragments == {SUPPORTED_DOMAINS[k] : k \in 1..Len(SUPPORTED_DOMAINS)}
Before == {<<>>, <<"h", "t", "t", "p", "s", ":", "/", "/">>, <<"W", "W", "W", ".">>}
After == {<<>>, <<"/", "a", "B", "c">>}
\* a fragment in some letter case inside a longer text
Embedded ==
    {b \o v \o a : b \in Before, a \in After,
                   v \in UNION {{d, Upper(d), Capitalized(d), Alternating(d)} : d \in Fragments}}
\* a fragment with one character missing inside a longer text
Damaged ==
    {b \o v \o a : b \in Before, a \in After,
                   v \in UNION {{Without(d, k) : k \in 1..Len(d)} : d \in Fragments}}

ClsInputs ==
    {NotAStr, [kind |-> "int", chars |-> <<>>]}
        \cup {Str(s) : s \in ShortTexts \cup Embedded \cup Damaged}

InitUrl ==
    /\ InitRequests
    /\ updates = 0
    /\ env = Env({}, {}, {})
    /\ cls_in \in ClsInputs
    /\ cls_out = "pending"

\* one call is_supported_url(cls_in)
ClassifierRun ==
    /\ cls_out = "pending"
    /\ cls_out' = is_supported_url_call(cls_in)
    /\ UNCHANGED <<cls_in, req_vars>>

NextUrl == ClassifierRun

SpecUrl == InitUrl /\ [][NextUrl]_vars

\* character c is the letter l of a fragment, in either case
SameLetter(c, l) == c = l \/ (l \in DOMAIN UpperOf /\ c = UpperOf[l])
\* fragment d occurs in s at offset off, letter case ignored
OccursAt(d, s, off) ==
    /\ off + Len(d) <= Len(s)
    /\ \A j \in 1..Len(d) : SameLetter(s[off + j], d[j])
ContainsFragment(s) == \E d \in Fragments : \E off \in 0..Len(s) : OccursAt(d, s, off)

\* C9: is_supported_url returns True exactly for the strings that contain
\* one of the seven fragments somewhere, in any letter case, False for every
\* other string, and False (no exception) for a value that is not a string.
C9_Classifier ==
    cls_out # "pending" =>
        /\ cls_out \in {"True", "False"}
        /\ cls_in.kind = "str" => (cls_out = "True" <=> ContainsFragment(cls_in.chars))
        /\ cls_in.kind # "str" => cls_out = "False"

\* an upper-case fragment in the middle of a text was accepted
C9_Witness ==
    /\ cls_out = "True"
    /\ cls_in = Str(<<"W", "W", "W", ".", "F", "B", ".", "W", "A", "T", "C", "H", "/", "a", "B", "c">>)

(* ---------------------------------------------------------------------- *)
(* C10                                                                     *)
(* ---------------------------------------------------------------------- *)
InFlight(r) == pc[r] \notin {"idle", "done"}
InBackendCall(r) == pc[r] \in {"L89_call", "L98_call"}

\* C10: while one request is inside extract_info or download, every other
\* request in flight can take a step.
C10_BackendCallsDoNotBlock ==
    \A r, q \in Requests :
        (r # q /\ InBackendCall(r) /\ InFlight(q)) => ENABLED Step(q)


(* ---------------------------------------------------------------------- *)
(* C11                                                                     *)
(* ---------------------------------------------------------------------- *)
\* the calls of request r that are returned downloads
Downloads(r) == {i \in Idx(r) : trace[r][i].op = "download" /\ trace[r][i].ok}
\* request r is between ListFiles and the end of its upload
HoldsFile(r) == pc[r] \in {"L108", "L109", "L111", "L120"}

\* C11: under every interleaving, two requests never have the same temporary
\* directory; a directory holds at most one file, put there by the download
\* of the request that owns it; the file a request uploads is an .mp4 of its
\* own directory, present there from its one returned download until the
\* upload has ended.
C11_OwnDirectoryOwnFile ==
    /\ \A r, q \in Requests :
           (r # q /\ tmp_dir[r] # 0 /\ tmp_dir[q] # 0) => tmp_dir[r] # tmp_dir[q]
    /\ \A d \in DOMAIN fs :
           /\ Cardinality(fs[d]) <= 1
           /\ fs[d] # {} => \E r \in Requests : tmp_dir[r] = d /\ Tried(r, "download")
    /\ \A r \in Requests :
           /\ Cardinality(Downloads(r)) <= 1
           /\ HoldsFile(r) =>
                  /\ tmp_dir[r] \in DOMAIN fs
                  /\ downloaded_path[r].dir = tmp_dir[r]
                  /\ downloaded_path[r].file \in fs[tmp_dir[r]]
           /\ \A i \in Idx(r) :
                  IsUpload(trace[r][i]) =>
                      /\ trace[r][i].arg[3].dir = tmp_dir[r]
                      /\ trace[r][i].arg[3].file.ext = "mp4"
                      /\ Cardinality(Downloads(r)) = 1
                      /\ \A j \in Downloads(r) : j < i

\* two requests are uploading at the same time, each from its own directory
C11_Witness ==
    \E r, q \in Requests :
        /\ r # q
        /\ pc[r] \in {"L111", "L120"} /\ awaiting[r]
        /\ pc[q] \in {"L111", "L120"} /\ awaiting[q]
        /\ tmp_dir[r] # tmp_dir[q]
        /\ {tmp_dir[r], tmp_dir[q]} \subseteq DOMAIN fs


(* ---------------------------------------------------------------------- *)
(* C12                                                                     *)
(* ---------------------------------------------------------------------- *)
\* some call before the i-th call of request r is a returned call of `op`
ReturnedBefore(r, op, i) ==
    \E j \in Idx(r) : j < i /\ trace[r][j].op = op /\ trace[r][j].ok
\* request r has a record of one of the calls `ops`
AnyOf(r, ops) == \E i \in Idx(r) : trace[r][i].op \in ops
ProgressTried(r) == \E i \in Idx(r) : IsProgressSend(r, i)

\* C12: within one request the probe runs only for an accepted URL, the
\* progress notification is sent only after the probe returned, the fetch
\* runs only after the notification step, the upload only after the fetch
\* returned and left a file; while one of these steps is running the
\* earlier ones are over and the later ones have not begun.
C12_StepOrder ==
    \A r \in Requests :
        /\ \A i \in Idx(r) :
               /\ trace[r][i].op = "extract_info" => is_supported_url(url[r])
               /\ IsProgressSend(r, i) => ReturnedBefore(r, "extract_info", i)
               /\ trace[r][i].op = "download" =>
                      \E j \in Idx(r) : j < i /\ IsProgressSend(r, j)
               /\ IsUpload(trace[r][i]) =>
                      /\ ReturnedBefore(r, "download", i)
                      /\ downloaded_path[r] # NoPath
        /\ pc[r] = "L89_call" =>
               /\ is_supported_url(url[r])
               /\ ~ProgressTried(r)
               /\ ~AnyOf(r, {"extract_info", "download", "reply_video", "reply_document"})
        /\ pc[r] = "L92" =>
               /\ ReturnedBefore(r, "extract_info", Len(trace[r]) + 1)
               /\ ~ProgressTried(r)
               /\ ~AnyOf(r, {"download", "reply_video", "reply_document"})
        /\ pc[r] \in {"L98", "L98_call"} =>
               /\ ProgressTried(r)
               /\ ~AnyOf(r, {"download", "reply_video", "reply_document"})
        /\ pc[r] \in {"L111", "L120"} =>
               /\ ReturnedBefore(r, "download", Len(trace[r]) + 1)
               /\ ~AnyOf(r, {"reply_video", "reply_document"})

\* a request went through probe, notification, fetch and upload
C12_Witness ==
    \E r \in Requests :
        /\ Done(r)
        /\ \E a, b, c, d \in Idx(r) :
               /\ a < b /\ b < c /\ c < d
               /\ trace[r][a].op = "extract_info"
               /\ IsProgressSend(r, b)
               /\ trace[r][c].op = "download"
               /\ IsUpload(trace[r][d])


(* ---------------------------------------------------------------------- *)
(* C13                                                                     *)
(* ---------------------------------------------------------------------- *)
\* the calls of request r whose operation is one of `ops`
CallsOf(r, ops) == {i \in Idx(r) : trace[r][i].op \in ops}

\* C13: within one request extract_info, download and the upload are each
\* called at most once; the upload is one reply_video or one reply_document,
\* so a failed upload in one mode is never followed by an upload in the
\* other.
C13_NoRetry ==
    \A r \in Requests :
        /\ Cardinality(CallsOf(r, {"extract_info"})) <= 1
        /\ Cardinality(CallsOf(r, {"download"})) <= 1
        /\ Cardinality(CallsOf(r, {"reply_video", "reply_document"})) <= 1

\* a request ended after its reply_video failed, with no other upload
C13_Witness ==
    \E r \in Requests :
        /\ Done(r)
        /\ \E i \in Idx(r) : trace[r][i].op = "reply_video" /\ ~trace[r][i].ok
        /\ Cardinality(CallsOf(r, {"reply_video", "reply_document"})) = 1


(* ---------------------------------------------------------------------- *)
(* C14                                                                     *)
(* ---------------------------------------------------------------------- *)
UploadFailed(r) == \E i \in Idx(r) : IsUpload(trace[r][i]) /\ ~trace[r][i].ok

\* C14: after a failed upload, in either mode, the handler has answered with
\* the generic failure message, the temporary directory is removed and the
\* deletion of the progress notification has been attempted when the
\* handler ends.
C14_UploadFailureCleansUp ==
    \A r \in Requests :
        (Done(r) /\ UploadFailed(r)) =>
            /\ TriedText(r, GenericText)
            /\ tmp_dir[r] \notin DOMAIN fs
            /\ Tried(r, "delete")


(* ---------------------------------------------------------------------- *)
(* C15                                                                     *)
(* ---------------------------------------------------------------------- *)
\* download returned for request r and its directory holds no .mp4 file
NoMp4(r) ==
    /\ tmp_dir[r] \in DOMAIN fs
    /\ \E i \in Idx(r) : trace[r][i] = Call("download", <<"returned">>, TRUE)
    /\ \A f \in fs[tmp_dir[r]] : f.ext # "mp4"

\* C15: when download returns without raising and the directory holds no
\* .mp4 file, the handler goes no further than L101-103: no file is chosen
\* and no upload is attempted; it then answers with the generic failure
\* message, and the directory with whatever it holds is removed.
C15_MissingOutput ==
    \A r \in Requests :
        /\ NoMp4(r) =>
               /\ pc[r] \in {"L101", "with_exit"}
               /\ pc[r] = "with_exit" => exc[r] = "Exception"
               /\ downloaded_path[r] = NoPath
               /\ ~AnyOf(r, {"reply_video", "reply_document"})
        /\ (Done(r) /\ MissingOutput(r)) =>
               /\ ~AnyOf(r, {"reply_video", "reply_document"})
               /\ TriedText(r, GenericText)
               /\ ~TriedText(r, PrivateText)
               /\ tmp_dir[r] # 0
               /\ tmp_dir[r] \notin DOMAIN fs

\* a request whose download left only a file of another container ended with
\* the generic failure message delivered
C15_Witness ==
    \E r \in Requests :
        /\ Done(r) /\ MissingOutput(r) /\ ~escaped[r]
        /\ \E i \in Idx(r) : trace[r][i] = Call("reply_text", <<GenericText>>, TRUE)
        /\ tmp_dir[r] \notin DOMAIN fs


(* ---------------------------------------------------------------------- *)
(* C16                                                                     *)
(* ---------------------------------------------------------------------- *)
\* the handler of request r ended without any step failing, and the file it
\* sent was smaller than 2000*1024*1024 bytes
PlainSuccess(r) ==
    /\ Done(r) /\ is_supported_url(url[r])
    /\ exc[r] = "none" /\ ~escaped[r]
    /\ \A i \in Idx(r) : trace[r][i].ok
    /\ \E i \in Idx(r) : IsUpload(trace[r][i]) /\ trace[r][i].arg[3].file.size < 2097152000

\* C16: on a run of a supported URL where every step succeeds and the file
\* is below the limit, the calls are exactly: typing action, probe, one
\* progress message whose minutes m satisfy 60*m <= duration < 60*(m+1)
\* (125 s gives 2), fetch, upload action, one streamable video captioned with
\* the check mark and the title, deletion of that progress message; no
\* failure message is sent and the temporary directory is removed.
C16_HappyPath ==
    \A r \in Requests :
        PlainSuccess(r) =>
            LET t == trace[r]
                seconds == IF "duration" \in info[r].keys THEN info[r].duration ELSE 0
                shown == IF "title" \in info[r].keys THEN info[r].title ELSE "video"
                captioned == IF "title" \in info[r].keys THEN info[r].title
                             ELSE "Downloaded Video"
            IN  /\ Len(t) = 7
                /\ t[1] = Call("reply_chat_action", <<"typing">>, TRUE)
                /\ t[2].op = "extract_info"
                /\ t[3].op = "reply_text"
                /\ Len(t[3].arg) = 5
                /\ t[3].arg[2] = shown
                /\ 60 * t[3].arg[4] <= seconds /\ seconds < 60 * (t[3].arg[4] + 1)
                /\ seconds = 125 => t[3].arg[4] = 2
                /\ t[3].arg[5] = " minutes"
                /\ t[4].op = "download"
                /\ t[5] = Call("reply_chat_action", <<"upload_video">>, TRUE)
                /\ t[6].op = "reply_video"
                /\ t[6].arg[1] = <<"U+2705 ", captioned>>
                /\ t[6].arg[2] = TRUE
                /\ t[7] = Call("delete", <<3>>, TRUE)
                /\ processing_msg[r] = 3
                /\ tmp_dir[r] # 0 /\ tmp_dir[r] \notin DOMAIN fs

\* the run of the example: title "Sample", 125 seconds shown as 2 minutes, a
\* file of 50 MiB sent as a video
C16_Witness ==
    \E r \in Requests :
        /\ PlainSuccess(r)
        /\ info[r] = InfoDict({"title", "duration"}, "Sample", 125)
        /\ trace[r][3].arg[4] = 2
        /\ trace[r][6].arg[1] = <<"U+2705 ", "Sample">>
        /\ trace[r][6].arg[3].file.size = 50 * 1024 * 1024


(* ---------------------------------------------------------------------- *)
(* C17                                                                     *)
(* ---------------------------------------------------------------------- *)
\* request r is in one of the except clauses (L128-141)
InExcept(r) == pc[r] \in {"L131", "L135", "L139"}

\* C17: whenever a handler is in an except clause, about to send, sending
\* or past the failure message, its temporary directory is already removed;
\* so it is also removed when the send of the failure message itself fails
\* and the exception leaves the handler.
C17_DirGoneBeforeFailureMessage ==
    \A r \in Requests :
        /\ InExcept(r) => tmp_dir[r] \notin DOMAIN fs
        /\ (Done(r) /\ escaped[r]) => tmp_dir[r] \notin DOMAIN fs

\* a handler is suspended in the send of the generic failure message after
\* its download left files behind, and the directory no longer exists
C17_Witness ==
    \E r \in Requests :
        /\ pc[r] = "L135" /\ awaiting[r]
        /\ Tried(r, "download")
        /\ tmp_dir[r] # 0 /\ tmp_dir[r] \notin DOMAIN fs


(* ---------------------------------------------------------------------- *)
(* C18                                                                     *)
(* ---------------------------------------------------------------------- *)
\* C18: within one request the deletion of the progress notification is
\* attempted at most once.
C18_DeleteAtMostOnce ==
    \A r \in Requests : Cardinality(CallsOf(r, {"delete"})) <= 1

====
